---- MODULE Spec2Model ----
(***************************************************************************)
(* URL shortener (src/app.py): the link store url_data and the request     *)
(* handlers of URLShortenerApp, run by a threaded server without a lock.   *)
(* A handler is a sequence of steps; each step holds at most one access to *)
(* the shared dictionary, so that requests of different threads interleave *)
(* between any two accesses.                                               *)
(* Authentication service (src/auth.py): the user store USER_DATA, the     *)
(* handlers of AuthService and the bearer tokens they issue and accept,    *)
(* a Flask application of its own, modelled by specifications of its own.  *)
(***************************************************************************)
EXTENDS Integers, Sequences, FiniteSets, TLC

(* ------------------------------ bounds -------------------------------- *)

\* server threads handling requests
NumProcs == 2
\* number of distinct outcomes of random.choices the model explores
PoolSize == 2
\* the clock runs from 0 to MaxClock ticks
MaxClock == 2
\* clock ticks per second (created_at has a resolution of one second)
TicksPerSecond == 2
\* generate_unique_id's max_attempts parameter (default 100, src/app.py:16),
\* scaled down: the retry loop is modelled attempt by attempt
max_attempts == 2
\* lifetime of a token in clock ticks (timedelta(days=1), src/auth.py:164),
\* scaled down to the clock of the model
TokenLifetime == 1

(* -------------------------- program constants ------------------------- *)

uri_length == 8
MaxUrlLen == 1000

(* ----------------------------- characters ----------------------------- *)

LowerSeq ==
    << "a", "b", "c", "d", "e", "f", "g", "h", "i", "j", "k", "l", "m",
       "n", "o", "p", "q", "r", "s", "t", "u", "v", "w", "x", "y", "z" >>
UpperSeq ==
    << "A", "B", "C", "D", "E", "F", "G", "H", "I", "J", "K", "L", "M",
       "N", "O", "P", "Q", "R", "S", "T", "U", "V", "W", "X", "Y", "Z" >>
DigitSeq == << "0", "1", "2", "3", "4", "5", "6", "7", "8", "9" >>

Range(s) == { s[i] : i \in DOMAIN s }

ascii_letters == Range(LowerSeq) \cup Range(UpperSeq)
digits == Range(DigitSeq)
\* string.ascii_letters + string.digits: the 62 symbols of an identifier
chars == ascii_letters \cup digits
\* what \S excludes
whitespace == { " ", "\t", "\n", "\r", "\f" }

\* re.IGNORECASE: letters are compared by their lower-case form
lc(c) ==
    IF c \in Range(UpperSeq)
    THEN LowerSeq[CHOOSE i \in DOMAIN UpperSeq : UpperSeq[i] = c]
    ELSE c

(* ------------------------ is_valid_url (regex) ------------------------ *)
(* A sub-pattern is an operator from a start position to the set of       *)
(* positions at which a match of it can end (position Len(s)+1 is the end  *)
(* of the string), which is what a backtracking matcher explores.          *)

\* a literal, compared case-insensitively
MatchLit(s, p, lit) ==
    IF /\ p + Len(lit) - 1 <= Len(s)
       /\ \A i \in DOMAIN lit : lc(s[p + i - 1]) = lit[i]
    THEN { p + Len(lit) } ELSE {}

\* ^https?://
MatchScheme(s) ==
    LET h == MatchLit(s, 1, << "h", "t", "t", "p" >>)
        hs == h \cup UNION { MatchLit(s, p, << "s" >>) : p \in h }
    IN  UNION { MatchLit(s, p, << ":", "/", "/" >>) : p \in hs }

\* [A-Z0-9](?:[A-Z0-9-]{0,61}[A-Z0-9])?\.   one label and its dot
MatchLabelDot(s, p) ==
    { q + 1 : q \in { r \in (p + 1)..Len(s) :
                        /\ r - p <= 63
                        /\ s[r] = "."
                        /\ s[p] \in chars
                        /\ s[r - 1] \in chars
                        /\ \A j \in p..(r - 1) : s[j] \in chars \cup { "-" } } }

\* (?:label\.)+
RECURSIVE MatchLabels(_, _)
MatchLabels(s, P) ==
    LET Q == UNION { MatchLabelDot(s, p) : p \in P }
    IN  IF Q = {} THEN {} ELSE Q \cup MatchLabels(s, Q)

\* [A-Z]{2,6}\.?
MatchTld(s, p) ==
    LET e == { q \in (p + 2)..(p + 6) :
                 /\ q <= Len(s) + 1
                 /\ \A j \in p..(q - 1) : s[j] \in ascii_letters }
    IN  e \cup UNION { MatchLit(s, q, << "." >>) : q \in e }

\* \d{1,3}
MatchOctet(s, p) ==
    { q \in (p + 1)..(p + 3) :
        /\ q <= Len(s) + 1
        /\ \A j \in p..(q - 1) : s[j] \in digits }

\* \d{1,3}\.\d{1,3}\.\d{1,3}\.\d{1,3}
MatchIp(s, p) ==
    LET dot(P) == UNION { MatchLit(s, q, << "." >>) : q \in P }
        oct(P) == UNION { MatchOctet(s, q) : q \in P }
    IN  oct(dot(oct(dot(oct(dot(oct({ p })))))))

\* domain | localhost | IP
MatchHost(s, p) ==
    LET dom == UNION { MatchTld(s, q) : q \in MatchLabels(s, { p }) }
        loc == MatchLit(s, p, << "l", "o", "c", "a", "l", "h", "o", "s", "t" >>)
    IN  dom \cup loc \cup MatchIp(s, p)

\* (?::\d+)?
MatchPort(s, p) ==
    { p } \cup
    { q \in (p + 2)..(Len(s) + 1) :
        /\ s[p] = ":"
        /\ \A j \in (p + 1)..(q - 1) : s[j] \in digits }

\* $ : the end of the string, or just before a newline that ends it
AtEnd(s, q) == q = Len(s) + 1 \/ (q = Len(s) /\ s[q] = "\n")

\* (?:/?|[/?]\S+)$
MatchTail(s, p) ==
    \/ AtEnd(s, p)
    \/ p <= Len(s) /\ s[p] = "/" /\ AtEnd(s, p + 1)
    \/ /\ p <= Len(s)
       /\ s[p] \in { "/", "?" }
       /\ \E q \in (p + 2)..(Len(s) + 1) :
            /\ \A j \in (p + 1)..(q - 1) : s[j] \notin whitespace
            /\ AtEnd(s, q)

re_match(s) ==
    \E p \in MatchScheme(s) :
        \E q \in MatchHost(s, p) :
            \E r \in MatchPort(s, q) : MatchTail(s, r)

\* URLShortenerApp.is_valid_url
is_valid_url(url) ==
    IF Len(url) > MaxUrlLen THEN FALSE
    ELSE IF \E i \in DOMAIN url : url[i] \in { "<", ">" } THEN FALSE
    ELSE re_match(url)

(* ------------------------------ inputs -------------------------------- *)

U_a == << "h", "t", "t", "p", ":", "/", "/", "a", ".", "i", "o" >>
U_b == << "H", "T", "T", "P", "S", ":", "/", "/", "l", "o", "c", "a", "l",
          "h", "o", "s", "t", ":", "8", "0", "/", "x" >>
U_noscheme == << "a", ".", "i", "o" >>
U_angle == << "h", "t", "t", "p", ":", "/", "/", "a", ".", "i", "o", "/",
              "<", "b", ">" >>
\* the url strings a request body may carry
UrlInputs == { U_a, U_b, U_noscheme, U_angle }

\* a request body: data = request.get_json() and url = data.get('url')
\* (json = FALSE: data is None; has_url = FALSE: url is None)
NoUrl == << >>
Bodies ==
    { [json |-> FALSE, has_url |-> FALSE, url |-> NoUrl],
      [json |-> TRUE, has_url |-> FALSE, url |-> NoUrl] }
    \cup { [json |-> TRUE, has_url |-> TRUE, url |-> u] : u \in UrlInputs }

(* ---------------------------- identifiers ----------------------------- *)

PoolSymbols == << "a", "Z", "7", "q", "B", "0" >>

\* random.choices(population, k=k): k symbols drawn with replacement. The
\* model explores PoolSize of the outcomes.
random_choices(population, k) ==
    { [i \in 1..k |-> PoolSymbols[j]] :
        j \in { m \in 1..PoolSize : PoolSymbols[m] \in population } }

NoId == << >>
\* an id no draw produces (the tests' '/nonexistent_id')
OtherId == << "n", "o", "n", "e" >>
\* the <string:id> path segments a request may carry
IdInputs == random_choices(chars, uri_length) \cup { OtherId }

(* ------------------------ the dict url_data --------------------------- *)
(* A Python dict keeps its keys in insertion order: url_data is the       *)
(* sequence of its items, [id, url, created_at], in that order.           *)

Keys(d) == { d[i].id : i \in DOMAIN d }

IndexOf(d, id) == CHOOSE i \in DOMAIN d : d[i].id = id

\* (variant: the first item, whatever its key)
DictGet_first(d, id) == d[1]

\* d[id]
DictGet(d, id) == d[IndexOf(d, id)]

\* d[id] = value: an existing key keeps its place, a new key goes last
DictSet(d, id, value) ==
    IF id \in Keys(d)
    THEN [d EXCEPT ![IndexOf(d, id)] = value]
    ELSE Append(d, value)

\* (variant: the first item is removed, whatever its key)
DictDel_first(d, id) == Tail(d)

\* del d[id]
DictDel(d, id) ==
    LET i == IndexOf(d, id)
    IN  SubSeq(d, 1, i - 1) \o SubSeq(d, i + 1, Len(d))

\* datetime.now().strftime("%Y-%m-%d %H:%M:%S"): the clock cut to seconds
strftime(t) == t \div TicksPerSecond

(* ------------------ authentication service: data ---------------------- *)

\* helpers.is_username_valid: at least 5 characters, each one alphanumeric
\* or an underscore
is_username_valid(username) ==
    /\ Len(username) >= 5
    /\ \A i \in DOMAIN username : username[i] \in chars \cup { "_" }

\* helpers.is_password_strong: at least 8 characters, with an uppercase
\* letter, a lowercase letter and a digit
is_password_strong(password) ==
    /\ Len(password) >= 8
    /\ \E i \in DOMAIN password : password[i] \in Range(UpperSeq)
    /\ \E i \in DOMAIN password : password[i] \in Range(LowerSeq)
    /\ \E i \in DOMAIN password : password[i] \in digits

\* helpers.hash_password: a one-way digest, the same for the same password
\* (login compares a recomputed digest with the stored one)
hash_password(password) == [digest |-> password]

\* a JSON field that is missing or null: data.get(...) is None
None == << "None" >>

N_alice1 == << "a", "l", "i", "c", "e", "1" >>
N_bob_22 == << "b", "o", "b", "_", "2", "2" >>
N_bob == << "b", "o", "b" >>
P_Str0ngPwd == << "S", "t", "r", "0", "n", "g", "P", "w", "d", "!" >>
P_N3wStr0ng == << "N", "3", "w", "S", "t", "r", "0", "n", "g" >>
P_wrong == << "w", "r", "o", "n", "g" >>
\* usernames and passwords that pass validation
UsernameInputs == { N_alice1, N_bob_22 }
PasswordInputs == { P_Str0ngPwd, P_N3wStr0ng }

\* the role field of a body: a string, null, or not there
NullRole == "<null>"
AbsentRole == "<absent>"
\* data.get('role', 'regular')
get_role(role) == IF role = AbsentRole THEN "regular" ELSE role
\* role.strip()
strip(role) == IF role \in { "", " " } THEN "" ELSE role

NoAuthBody ==
    [json |-> FALSE, username |-> None, password |-> None, role |-> AbsentRole,
     old_password |-> None, new_password |-> None]

\* bodies of POST /users: the well-formed ones, and one for each way of
\* failing validation
CreateUserBodies ==
    { [NoAuthBody EXCEPT !.json = TRUE, !.username = u, !.password = pw, !.role = r] :
        u \in UsernameInputs, pw \in PasswordInputs, r \in { "admin", "regular", AbsentRole } }
    \cup { NoAuthBody,
           [NoAuthBody EXCEPT !.json = TRUE, !.password = P_Str0ngPwd],
           [NoAuthBody EXCEPT !.json = TRUE, !.username = N_bob, !.password = P_Str0ngPwd],
           [NoAuthBody EXCEPT !.json = TRUE, !.username = N_alice1],
           [NoAuthBody EXCEPT !.json = TRUE, !.username = N_alice1, !.password = P_wrong] }
    \cup { [NoAuthBody EXCEPT !.json = TRUE, !.username = N_alice1,
                              !.password = P_Str0ngPwd, !.role = r] :
             r \in { NullRole, " ", "guest" } }

\* bodies of POST /users/login
LoginBodies ==
    { [NoAuthBody EXCEPT !.json = TRUE, !.username = u, !.password = pw] :
        u \in UsernameInputs, pw \in PasswordInputs \cup { P_wrong } }
    \cup { NoAuthBody,
           [NoAuthBody EXCEPT !.json = TRUE, !.password = P_Str0ngPwd],
           [NoAuthBody EXCEPT !.json = TRUE, !.username = N_alice1] }

\* bodies of PUT /users
UpdatePasswordBodies ==
    { [NoAuthBody EXCEPT !.json = TRUE, !.username = u,
                         !.old_password = old, !.new_password = new] :
        u \in UsernameInputs, old \in PasswordInputs,
        new \in PasswordInputs \cup { P_wrong } }
    \cup { NoAuthBody,
           [NoAuthBody EXCEPT !.json = TRUE,
                              !.old_password = P_Str0ngPwd, !.new_password = P_N3wStr0ng],
           [NoAuthBody EXCEPT !.json = TRUE, !.username = N_alice1,
                              !.new_password = P_N3wStr0ng],
           [NoAuthBody EXCEPT !.json = TRUE, !.username = N_alice1,
                              !.old_password = P_Str0ngPwd] }

\* JWT_SECRET = secrets.token_urlsafe(64), and any other key
JWT_SECRET == "JWT_SECRET"
OtherSecret == "OtherSecret"

NoPayload == [sub |-> None, role |-> NullRole, exp |-> 0]
\* jwt.encode(payload, key, algorithm='HS256'): a compact token that
\* carries the payload and a signature made with the key
jwt_encode(payload, key) == [compact |-> TRUE, payload |-> payload, key |-> key]
\* a string that is not a compact token
Garbage == [compact |-> FALSE, payload |-> NoPayload, key |-> "none"]
NoToken == [compact |-> FALSE, payload |-> NoPayload, key |-> "absent"]
\* a token an outsider makes: any payload, signed with a key of their own
Forged ==
    jwt_encode([sub |-> N_alice1, role |-> "admin", exp |-> MaxClock + TokenLifetime + 1],
               OtherSecret)

\* (variant: decoding without the check of exp)
jwt_decode_no_exp(token, key, t) ==
    IF ~token.compact THEN NoPayload
    ELSE IF token.key # key THEN NoPayload
    ELSE token.payload

\* (variant: decoding without the check of the signature)
jwt_decode_no_verify(token, key, t) ==
    IF ~token.compact THEN NoPayload
    ELSE IF token.payload.exp <= t THEN NoPayload
    ELSE token.payload

\* jwt.decode(token, key, algorithms=['HS256']) at time t: the payload, or
\* InvalidTokenError (DecodeError, InvalidSignatureError,
\* ExpiredSignatureError) given here as NoPayload
jwt_decode(token, key, t) ==
    IF ~token.compact THEN NoPayload
    ELSE IF token.key # key THEN NoPayload
    ELSE IF token.payload.exp <= t THEN NoPayload
    ELSE token.payload

\* the Authorization header of a request
NoHeader == [present |-> FALSE, token |-> NoToken]
Bearer(token) == [present |-> TRUE, token |-> token]

NoAuthReq ==
    [op |-> "none", header |-> NoHeader, json |-> FALSE, username |-> None,
     password |-> None, role |-> AbsentRole, old_password |-> None,
     new_password |-> None]
NoAuthResp == [code |-> 0, error |-> "", access_token |-> NoToken]
\* nothing issued yet
NoIssue ==
    [token |-> NoToken, at |-> 0, sub |-> None, role |-> NullRole,
     password |-> hash_password(None)]

\* no password changed yet
NoChange == [username |-> None, old_password |-> None, new_password |-> None]

AuthRequest(op, header, body) ==
    [op |-> op, header |-> header, json |-> body.json, username |-> body.username,
     password |-> body.password, role |-> body.role,
     old_password |-> body.old_password, new_password |-> body.new_password]

\* USER_DATA[username] = value on a copy of the dictionary
UserPut(d, username, value) ==
    [u \in DOMAIN d \cup { username } |-> IF u = username THEN value ELSE d[u]]

(* ------------------------------- state -------------------------------- *)

Procs == 1..NumProcs

VARIABLES
    url_data,   \* self.url_data
    now,        \* the wall clock, in ticks
    pc,         \* pc[p]: where thread p is in its handler
    req,        \* req[p]: the request thread p handles
    local,      \* local[p]: the handler's local variables
    resp,       \* resp[p]: the response of the handler (at "done")
    created,    \* history: the (id, url) of every 201 answer whose id has
                \* not been updated or deleted since
    threaded,   \* the server's threaded option: requests overlap
    USER_DATA,  \* auth.USER_DATA
    apc,        \* apc[p]: where thread p is in a handler of AuthService
    areq,       \* areq[p]: the request to AuthService thread p handles
    aresp,      \* aresp[p]: the response of that handler (at "done")
    issued,     \* history: the token of the last successful login, with
                \* the time, the username and the role it was issued for
                \* and the password hash stored at that time
    changed,    \* history: the username, old and new password of the last
                \* update_password that answered 200
    probe,      \* a string handed to is_valid_url
    verdict     \* what is_valid_url returned for it

authvars == << USER_DATA, apc, areq, aresp, issued, changed >>
probevars == << probe, verdict >>
linkvars == << url_data, pc, req, local, resp, created >>
vars == << url_data, now, pc, req, local, resp, created, threaded, authvars, probevars >>

NoReq == [op |-> "none", id |-> NoId, json |-> FALSE, has_url |-> FALSE, url |-> NoUrl]
NoLocal ==
    [unique_id |-> NoId, attempts |-> 0, created_at |-> 0, k |-> 0, n |-> 0,
     key |-> NoId, short_urls |-> << >>]
NoResp == [code |-> 0, id |-> NoId, location |-> NoUrl, short_urls |-> << >>]

Request(op, id, body) ==
    [op |-> op, id |-> id, json |-> body.json, has_url |-> body.has_url, url |-> body.url]

\* return jsonify(...), code / return redirect(location)
Respond(p, code, id, location) ==
    /\ pc' = [pc EXCEPT ![p] = "done"]
    /\ resp' = [resp EXCEPT ![p] = [NoResp EXCEPT !.code = code, !.id = id,
                                                  !.location = location]]
    /\ local' = [local EXCEPT ![p] = NoLocal]

Goto(p, label, loc) ==
    /\ pc' = [pc EXCEPT ![p] = label]
    /\ local' = [local EXCEPT ![p] = loc]
    /\ resp' = resp

Forget(id) == { e \in created : e.id # id }

\* thread p is scheduled: always under the threaded server, and otherwise
\* only while no other request is being handled
Scheduled(p) == threaded \/ \A q \in Procs \ { p } : pc[q] = "idle"

Start ==
    /\ url_data = << >>
    /\ now = 0
    /\ pc = [p \in Procs |-> "idle"]
    /\ req = [p \in Procs |-> NoReq]
    /\ local = [p \in Procs |-> NoLocal]
    /\ resp = [p \in Procs |-> NoResp]
    /\ created = {}
    /\ USER_DATA = << >>
    /\ apc = [p \in Procs |-> "idle"]
    /\ areq = [p \in Procs |-> NoAuthReq]
    /\ aresp = [p \in Procs |-> NoAuthResp]
    /\ issued = NoIssue
    /\ changed = NoChange
    /\ probe = NoUrl
    /\ verdict = "none"

\* app.run(debug=True): the development server handles each request in a
\* thread of its own
Init == Start /\ threaded = TRUE

\* requests handled one at a time (the test client of src/test_app.py, a
\* server run with threaded=False)
InitSeq == Start /\ threaded = FALSE

(* ------------------------- create_short_url --------------------------- *)

\* (variant: the url is not validated)
BodyOk_unvalidated(body) == body.json /\ body.has_url

\* the body is accepted: data is not None, url is not None, url is valid
BodyOk(body) == body.json /\ body.has_url /\ is_valid_url(body.url)

\* (variant: the key is compared instead of the target)
url_matches_id(value, url) == value.id = url

\* value['url'] == url, the test of the duplicate-target scan
url_matches(value, url) == value.url = url

\* (variant: no scan for a record with the same target)
create_short_url_noscan(p) ==
    /\ pc[p] = "idle"
    /\ Scheduled(p)
    /\ \E body \in Bodies :
         /\ req' = [req EXCEPT ![p] = Request("create", NoId, body)]
         /\ IF ~(body.json /\ body.has_url /\ is_valid_url(body.url))
            THEN Respond(p, 400, NoId, NoUrl)
            ELSE Goto(p, "generate_unique_id", NoLocal)
    /\ UNCHANGED << url_data, now, created, threaded, authvars, probevars >>

\* POST /: parse and validate the body, then start the scan of the items
create_short_url(p) ==
    /\ pc[p] = "idle"
    /\ Scheduled(p)
    /\ \E body \in Bodies :
         /\ req' = [req EXCEPT ![p] = Request("create", NoId, body)]
         /\ IF ~BodyOk(body)
            THEN Respond(p, 400, NoId, NoUrl)
            ELSE Goto(p, "scan", [NoLocal EXCEPT !.n = Len(url_data)])
    /\ UNCHANGED << url_data, now, created, threaded, authvars, probevars >>

\* one step of next(id for id, value in self.url_data.items() if ...)
create_scan(p) ==
    /\ pc[p] = "scan"
    /\ Scheduled(p)
    /\ IF Len(url_data) # local[p].n
       THEN \* RuntimeError: dictionary changed size during iteration
            Respond(p, 500, NoId, NoUrl)
       ELSE IF local[p].k >= Len(url_data)
       THEN \* no record has this url
            Goto(p, "generate_unique_id", NoLocal)
       ELSE IF url_matches(url_data[local[p].k + 1], req[p].url)
       THEN Respond(p, 409, url_data[local[p].k + 1].id, NoUrl)
       ELSE Goto(p, "scan", [local[p] EXCEPT !.k = @ + 1])
    /\ UNCHANGED << url_data, now, req, created, threaded, authvars, probevars >>

\* (variant: the loop runs while attempts <= max_attempts)
generate_unique_id_one_more(p) ==
    /\ pc[p] = "generate_unique_id"
    /\ Scheduled(p)
    /\ IF ~(local[p].attempts <= max_attempts)
       THEN Respond(p, 500, NoId, NoUrl)
       ELSE \E unique_id \in random_choices(chars, uri_length) :
              IF unique_id \notin Keys(url_data)
              THEN Goto(p, "insert", [local[p] EXCEPT !.unique_id = unique_id])
              ELSE Goto(p, "generate_unique_id", [local[p] EXCEPT !.attempts = @ + 1])
    /\ UNCHANGED << url_data, now, req, created, threaded, authvars, probevars >>

\* one turn of the loop of generate_unique_id
generate_unique_id(p) ==
    /\ pc[p] = "generate_unique_id"
    /\ Scheduled(p)
    /\ IF ~(local[p].attempts < max_attempts)
       THEN \* ValueError, caught by create_short_url
            Respond(p, 500, NoId, NoUrl)
       ELSE \E unique_id \in random_choices(chars, uri_length) :
              IF unique_id \notin Keys(url_data)
              THEN Goto(p, "insert", [local[p] EXCEPT !.unique_id = unique_id])
              ELSE Goto(p, "generate_unique_id", [local[p] EXCEPT !.attempts = @ + 1])
    /\ UNCHANGED << url_data, now, req, created, threaded, authvars, probevars >>

\* self.url_data[unique_id] = {...}; return 201
create_insert(p) ==
    /\ pc[p] = "insert"
    /\ Scheduled(p)
    /\ url_data' = DictSet(url_data, local[p].unique_id,
                           [id |-> local[p].unique_id, url |-> req[p].url,
                            created_at |-> strftime(now)])
    /\ created' = created \cup { [id |-> local[p].unique_id, url |-> req[p].url] }
    /\ Respond(p, 201, local[p].unique_id, NoUrl)
    /\ UNCHANGED << now, req, threaded, authvars, probevars >>

(* ----------------------------- update_url ----------------------------- *)

\* (variant: the id is looked up before the body is validated)
update_url_lookup_first(p) ==
    /\ pc[p] = "idle"
    /\ Scheduled(p)
    /\ \E id \in IdInputs, body \in Bodies :
         /\ req' = [req EXCEPT ![p] = Request("update", id, body)]
         /\ IF id \notin Keys(url_data)
            THEN Respond(p, 404, NoId, NoUrl)
            ELSE IF ~(body.json /\ body.has_url /\ is_valid_url(body.url))
            THEN Respond(p, 400, NoId, NoUrl)
            ELSE Goto(p, "update_read", NoLocal)
    /\ UNCHANGED << url_data, now, created, threaded, authvars, probevars >>

\* (variant: the url is tested for presence only, not validated)
update_url_unvalidated(p) ==
    /\ pc[p] = "idle"
    /\ Scheduled(p)
    /\ \E id \in IdInputs, body \in Bodies :
         /\ req' = [req EXCEPT ![p] = Request("update", id, body)]
         /\ IF ~(body.json /\ body.has_url)
            THEN Respond(p, 400, NoId, NoUrl)
            ELSE IF id \in Keys(url_data)
            THEN Goto(p, "update_read", NoLocal)
            ELSE Respond(p, 404, NoId, NoUrl)
    /\ UNCHANGED << url_data, now, created, threaded, authvars, probevars >>

\* PUT /<id>: parse and validate the body, then test id in self.url_data
update_url(p) ==
    /\ pc[p] = "idle"
    /\ Scheduled(p)
    /\ \E id \in IdInputs, body \in Bodies :
         /\ req' = [req EXCEPT ![p] = Request("update", id, body)]
         /\ IF ~BodyOk(body)
            THEN Respond(p, 400, NoId, NoUrl)
            ELSE IF id \in Keys(url_data)
            THEN Goto(p, "update_read", NoLocal)
            ELSE Respond(p, 404, NoId, NoUrl)
    /\ UNCHANGED << url_data, now, created, threaded, authvars, probevars >>

\* self.url_data[id]["created_at"]
update_read(p) ==
    /\ pc[p] = "update_read"
    /\ Scheduled(p)
    /\ IF req[p].id \in Keys(url_data)
       THEN Goto(p, "update_write",
                 [NoLocal EXCEPT !.created_at = DictGet(url_data, req[p].id).created_at])
       ELSE \* KeyError
            Respond(p, 500, NoId, NoUrl)
    /\ UNCHANGED << url_data, now, req, created, threaded, authvars, probevars >>

\* (variant: the record is stamped anew)
update_write_restamp(p) ==
    /\ pc[p] = "update_write"
    /\ Scheduled(p)
    /\ url_data' = DictSet(url_data, req[p].id,
                           [id |-> req[p].id, url |-> req[p].url,
                            created_at |-> strftime(now)])
    /\ created' = Forget(req[p].id)
    /\ Respond(p, 200, NoId, NoUrl)
    /\ UNCHANGED << now, req, threaded, authvars, probevars >>

\* self.url_data[id] = {"url": url, "created_at": ...}; return 200
update_write(p) ==
    /\ pc[p] = "update_write"
    /\ Scheduled(p)
    /\ url_data' = DictSet(url_data, req[p].id,
                           [id |-> req[p].id, url |-> req[p].url,
                            created_at |-> local[p].created_at])
    /\ created' = Forget(req[p].id)
    /\ Respond(p, 200, NoId, NoUrl)
    /\ UNCHANGED << now, req, threaded, authvars, probevars >>

(* ----------------------------- delete_url ----------------------------- *)

\* DELETE /<id>: test id in self.url_data
delete_url(p) ==
    /\ pc[p] = "idle"
    /\ Scheduled(p)
    /\ \E id \in IdInputs :
         /\ req' = [req EXCEPT ![p] = [NoReq EXCEPT !.op = "delete", !.id = id]]
         /\ IF id \in Keys(url_data)
            THEN Goto(p, "delete_del", NoLocal)
            ELSE Respond(p, 404, NoId, NoUrl)
    /\ UNCHANGED << url_data, now, created, threaded, authvars, probevars >>

\* del self.url_data[id]; return 200
delete_del(p) ==
    /\ pc[p] = "delete_del"
    /\ Scheduled(p)
    /\ IF req[p].id \in Keys(url_data)
       THEN /\ url_data' = DictDel(url_data, req[p].id)
            /\ created' = Forget(req[p].id)
            /\ Respond(p, 200, NoId, NoUrl)
       ELSE \* KeyError
            /\ Respond(p, 500, NoId, NoUrl)
            /\ UNCHANGED << url_data, created, threaded, authvars, probevars >>
    /\ UNCHANGED << now, req, threaded, authvars, probevars >>

(* ---------------------------- redirect_url ---------------------------- *)

\* GET /<id>: test id in self.url_data
redirect_url(p) ==
    /\ pc[p] = "idle"
    /\ Scheduled(p)
    /\ \E id \in IdInputs :
         /\ req' = [req EXCEPT ![p] = [NoReq EXCEPT !.op = "get", !.id = id]]
         /\ IF id \in Keys(url_data)
            THEN Goto(p, "redirect_read", NoLocal)
            ELSE Respond(p, 404, NoId, NoUrl)
    /\ UNCHANGED << url_data, now, created, threaded, authvars, probevars >>

\* return redirect(self.url_data[id]['url'])
redirect_read(p) ==
    /\ pc[p] = "redirect_read"
    /\ Scheduled(p)
    /\ IF req[p].id \in Keys(url_data)
       THEN Respond(p, 302, NoId, DictGet(url_data, req[p].id).url)
       ELSE \* KeyError
            Respond(p, 500, NoId, NoUrl)
    /\ UNCHANGED << url_data, now, req, created, threaded, authvars, probevars >>

(* ----------------------------- serve_index ---------------------------- *)

\* the place of x in a list sorted by created_at, newest first: behind
\* every item that is as new or newer
RECURSIVE InsertDesc(_, _)
InsertDesc(sorted, x) ==
    IF sorted = << >> THEN << x >>
    ELSE IF Head(sorted).created_at >= x.created_at
    THEN << Head(sorted) >> \o InsertDesc(Tail(sorted), x)
    ELSE << x >> \o sorted

\* (variant: sorted ascending, then reversed)
RECURSIVE sorted_then_reversed(_)
sorted_then_reversed(l) ==
    IF l = << >> THEN << >>
    ELSE LET rest == sorted_then_reversed(SubSeq(l, 1, Len(l) - 1))
             x == l[Len(l)]
             front == SelectSeq(rest, LAMBDA y : y.created_at > x.created_at)
             back == SelectSeq(rest, LAMBDA y : y.created_at <= x.created_at)
         IN  front \o << x >> \o back

\* sorted(short_urls, key=lambda x: x['created_at'], reverse=True): a stable
\* sort, items of equal created_at keep their order
RECURSIVE sorted_desc(_)
sorted_desc(l) ==
    IF l = << >> THEN << >>
    ELSE InsertDesc(sorted_desc(SubSeq(l, 1, Len(l) - 1)), l[Len(l)])

\* return render_template('index.html', short_urls=short_urls)
RespondList(p, short_urls) ==
    /\ pc' = [pc EXCEPT ![p] = "done"]
    /\ resp' = [resp EXCEPT ![p] = [NoResp EXCEPT !.code = 200, !.short_urls = short_urls]]
    /\ local' = [local EXCEPT ![p] = NoLocal]

\* GET /: start the iteration over the keys of self.url_data
serve_index(p) ==
    /\ pc[p] = "idle"
    /\ Scheduled(p)
    /\ req' = [req EXCEPT ![p] = [NoReq EXCEPT !.op = "list"]]
    /\ Goto(p, "serve_index_next", [NoLocal EXCEPT !.n = Len(url_data)])
    /\ UNCHANGED << url_data, now, created, threaded, authvars, probevars >>

\* for key in self.url_data: the next key, or the end and the sort
serve_index_next(p) ==
    /\ pc[p] = "serve_index_next"
    /\ Scheduled(p)
    /\ IF Len(url_data) # local[p].n
       THEN \* RuntimeError: dictionary changed size during iteration
            Respond(p, 500, NoId, NoUrl)
       ELSE IF local[p].k >= Len(url_data)
       THEN RespondList(p, sorted_desc(local[p].short_urls))
       ELSE Goto(p, "serve_index_read",
                 [local[p] EXCEPT !.k = @ + 1, !.key = url_data[local[p].k + 1].id])
    /\ UNCHANGED << url_data, now, req, created, threaded, authvars, probevars >>

\* self.url_data[key]["created_at"], self.url_data[key]["url"]
serve_index_read(p) ==
    /\ pc[p] = "serve_index_read"
    /\ Scheduled(p)
    /\ IF local[p].key \in Keys(url_data)
       THEN Goto(p, "serve_index_next",
                 [local[p] EXCEPT
                    !.key = NoId,
                    !.short_urls =
                        Append(@, [id |-> local[p].key,
                                   created_at |-> DictGet(url_data, local[p].key).created_at,
                                   original_url |-> DictGet(url_data, local[p].key).url])])
       ELSE \* KeyError
            Respond(p, 500, NoId, NoUrl)
    /\ UNCHANGED << url_data, now, req, created, threaded, authvars, probevars >>

(* ------------------------------ the server ---------------------------- *)

\* the response is sent; the thread is free for the next request
Return(p) ==
    /\ pc[p] = "done"
    /\ Scheduled(p)
    /\ pc' = [pc EXCEPT ![p] = "idle"]
    /\ req' = [req EXCEPT ![p] = NoReq]
    /\ resp' = [resp EXCEPT ![p] = NoResp]
    /\ UNCHANGED << url_data, now, local, created, threaded, authvars, probevars >>

\* time passes
Tick ==
    /\ now < MaxClock
    /\ now' = now + 1
    /\ UNCHANGED << url_data, pc, req, local, resp, created, threaded, authvars, probevars >>

Step(p) ==
    \/ create_short_url(p)
    \/ create_scan(p)
    \/ generate_unique_id(p)
    \/ create_insert(p)
    \/ update_url(p)
    \/ update_read(p)
    \/ update_write(p)
    \/ delete_url(p)
    \/ delete_del(p)
    \/ redirect_url(p)
    \/ redirect_read(p)
    \/ serve_index(p)
    \/ serve_index_next(p)
    \/ serve_index_read(p)
    \/ Return(p)

\* the threaded server: requests of different threads interleave freely
Next == Tick \/ \E p \in Procs : Step(p)

Spec == Init /\ [][Next]_vars

SpecSeq == InitSeq /\ [][Next]_vars

(* ----------------- authentication service: handlers ------------------- *)

AuthScheduled(p) == threaded \/ \A q \in Procs \ { p } : apc[q] = "idle"

\* return jsonify({'error': error}), code
AuthRespond(p, code, error) ==
    /\ apc' = [apc EXCEPT ![p] = "done"]
    /\ aresp' = [aresp EXCEPT ![p] = [NoAuthResp EXCEPT !.code = code, !.error = error]]

AuthGoto(p, label) ==
    /\ apc' = [apc EXCEPT ![p] = label]
    /\ aresp' = aresp

\* (variant: a token is revoked when its user's password changes)
validate_jwt_revoking(token) ==
    IF /\ issued # NoIssue
       /\ token = issued.token
       /\ USER_DATA[issued.sub].password # issued.password
    THEN NoPayload
    ELSE jwt_decode(token, JWT_SECRET, now)

\* validate_jwt(token)
validate_jwt(token) == jwt_decode(token, JWT_SECRET, now)

\* the Authorization headers a client can send: none, a string that is no
\* token, a token signed with another key, the token a login answered
Headers ==
    { NoHeader, Bearer(Garbage), Bearer(Forged) }
    \cup (IF issued = NoIssue THEN { } ELSE { Bearer(issued.token) })

\* (variant: a gate that lets a request without a header through)
GateError_header_optional(header) ==
    IF ~header.present THEN ""
    ELSE IF validate_jwt(header.token) = NoPayload THEN "Invalid JWT token"
    ELSE ""

\* (variant: a gate that tells a malformed token from a rejected one)
GateError_verbose(header) ==
    IF ~header.present THEN "Missing Authorization header"
    ELSE IF ~header.token.compact THEN "Malformed JWT token"
    ELSE IF validate_jwt(header.token) = NoPayload THEN "Invalid JWT token"
    ELSE ""

\* require_auth: the response of the gate, or none when the request passes
GateError(header) ==
    IF ~header.present THEN "Missing Authorization header"
    ELSE IF validate_jwt(header.token) = NoPayload THEN "Invalid JWT token"
    ELSE ""

\* create_user: the checks of the body, "" when it passes
CreateUserError(r) ==
    IF ~r.json THEN "Invalid JSON"
    ELSE IF r.username = None THEN "Username is required"
    ELSE IF ~is_username_valid(r.username) THEN "Invalid username. Must be at least 5 characters long and contain only alphanumeric characters and underscores"
    ELSE IF r.password = None THEN "Password is required"
    ELSE IF ~is_password_strong(r.password) THEN "Password must be at least 8 characters long, contain an uppercase letter, a lowercase letter, and a digit"
    ELSE IF get_role(r.role) = NullRole \/ strip(get_role(r.role)) = ""
    THEN "Role is required"
    ELSE IF get_role(r.role) \notin { "admin", "regular" } THEN "Invalid role"
    ELSE ""

\* (variant: create_user without the test `username in USER_DATA`)
create_user_unchecked(p) ==
    /\ apc[p] = "idle"
    /\ AuthScheduled(p)
    /\ \E body \in CreateUserBodies :
          LET r == AuthRequest("create_user", NoHeader, body)
          IN  /\ areq' = [areq EXCEPT ![p] = r]
              /\ IF CreateUserError(r) # ""
                 THEN AuthRespond(p, 400, CreateUserError(r))
                 ELSE AuthGoto(p, "create_user_store")
    /\ UNCHANGED << now, threaded, linkvars, probevars, USER_DATA, issued, changed >>

\* POST /users, up to the test `username in USER_DATA`
create_user(p) ==
    /\ apc[p] = "idle"
    /\ AuthScheduled(p)
    /\ \E body \in CreateUserBodies :
          LET r == AuthRequest("create_user", NoHeader, body)
          IN  /\ areq' = [areq EXCEPT ![p] = r]
              /\ IF CreateUserError(r) # ""
                 THEN AuthRespond(p, 400, CreateUserError(r))
                 ELSE IF r.username \in DOMAIN USER_DATA
                 THEN AuthRespond(p, 409, "Username already exists")
                 ELSE AuthGoto(p, "create_user_store")
    /\ UNCHANGED << now, threaded, linkvars, probevars, USER_DATA, issued, changed >>

\* USER_DATA[username] = {'password': hash_password(password), 'role': role}
create_user_store(p) ==
    /\ apc[p] = "create_user_store"
    /\ AuthScheduled(p)
    /\ USER_DATA' = UserPut(USER_DATA, areq[p].username,
                            [password |-> hash_password(areq[p].password),
                             role |-> get_role(areq[p].role)])
    /\ AuthRespond(p, 201, "")
    /\ UNCHANGED << now, threaded, linkvars, probevars, areq, issued, changed >>

\* (variant: login that answers an unknown username with 404)
login_not_found_404(p) ==
    /\ apc[p] = "idle"
    /\ AuthScheduled(p)
    /\ \E body \in LoginBodies :
          LET r == AuthRequest("login", NoHeader, body)
          IN  /\ areq' = [areq EXCEPT ![p] = r]
              /\ IF ~r.json THEN AuthRespond(p, 400, "Invalid JSON")
                 ELSE IF r.username = None
                 THEN AuthRespond(p, 400, "Username is required")
                 ELSE IF r.password = None
                 THEN AuthRespond(p, 400, "Password is required")
                 ELSE IF r.username \notin DOMAIN USER_DATA
                 THEN AuthRespond(p, 404, "User not found")
                 ELSE AuthGoto(p, "login_compare")
    /\ UNCHANGED << now, threaded, linkvars, probevars, USER_DATA, issued, changed >>

\* POST /users/login, up to the test `username not in USER_DATA`
login(p) ==
    /\ apc[p] = "idle"
    /\ AuthScheduled(p)
    /\ \E body \in LoginBodies :
          LET r == AuthRequest("login", NoHeader, body)
          IN  /\ areq' = [areq EXCEPT ![p] = r]
              /\ IF ~r.json THEN AuthRespond(p, 400, "Invalid JSON")
                 ELSE IF r.username = None
                 THEN AuthRespond(p, 400, "Username is required")
                 ELSE IF r.password = None
                 THEN AuthRespond(p, 400, "Password is required")
                 ELSE IF r.username \notin DOMAIN USER_DATA
                 THEN AuthRespond(p, 403, "User not found")
                 ELSE AuthGoto(p, "login_compare")
    /\ UNCHANGED << now, threaded, linkvars, probevars, USER_DATA, issued, changed >>

\* (variant: login that compares nothing)
login_compare_any(p) ==
    /\ apc[p] = "login_compare"
    /\ AuthScheduled(p)
    /\ AuthGoto(p, "login_issue")
    /\ UNCHANGED << now, threaded, linkvars, probevars, USER_DATA, areq, issued, changed >>

\* stored_password = USER_DATA[username]['password'] and the comparison
\* with hash_password(password)
login_compare(p) ==
    /\ apc[p] = "login_compare"
    /\ AuthScheduled(p)
    /\ IF USER_DATA[areq[p].username].password # hash_password(areq[p].password)
       THEN AuthRespond(p, 403, "Invalid credentials")
       ELSE AuthGoto(p, "login_issue")
    /\ UNCHANGED << now, threaded, linkvars, probevars, USER_DATA, areq, issued, changed >>

\* (variant: a token that is expired when it is issued)
login_issue_no_lifetime(p) ==
    /\ apc[p] = "login_issue"
    /\ AuthScheduled(p)
    /\ LET payload == [sub |-> areq[p].username,
                       role |-> USER_DATA[areq[p].username].role,
                       exp |-> now]
           token == jwt_encode(payload, JWT_SECRET)
       IN  /\ apc' = [apc EXCEPT ![p] = "done"]
           /\ aresp' = [aresp EXCEPT ![p] = [NoAuthResp EXCEPT !.code = 200,
                                                               !.access_token = token]]
           /\ issued' = [token |-> token, at |-> now, sub |-> areq[p].username,
                         role |-> USER_DATA[areq[p].username].role,
                         password |-> USER_DATA[areq[p].username].password]
    /\ UNCHANGED << now, threaded, linkvars, probevars, USER_DATA, areq, changed >>

\* payload = {'sub', 'role', 'exp'}; token = jwt.encode(payload, JWT_SECRET);
\* return jsonify({'access_token': token}), 200
login_issue(p) ==
    /\ apc[p] = "login_issue"
    /\ AuthScheduled(p)
    /\ LET payload == [sub |-> areq[p].username,
                       role |-> USER_DATA[areq[p].username].role,
                       exp |-> now + TokenLifetime]
           token == jwt_encode(payload, JWT_SECRET)
       IN  /\ apc' = [apc EXCEPT ![p] = "done"]
           /\ aresp' = [aresp EXCEPT ![p] = [NoAuthResp EXCEPT !.code = 200,
                                                               !.access_token = token]]
           /\ issued' = [token |-> token, at |-> now, sub |-> areq[p].username,
                         role |-> USER_DATA[areq[p].username].role,
                         password |-> USER_DATA[areq[p].username].password]
    /\ UNCHANGED << now, threaded, linkvars, probevars, USER_DATA, areq, changed >>

\* (variant: update_password without the check of the new password)
UpdatePasswordError_any_new(r) ==
    IF ~r.json THEN "Invalid JSON"
    ELSE IF r.username = None THEN "Username is required"
    ELSE IF r.old_password = None THEN "Old password is required"
    ELSE IF r.new_password = None THEN "New password is required"
    ELSE ""

\* update_password: the checks of the body, "" when it passes
UpdatePasswordError(r) ==
    IF ~r.json THEN "Invalid JSON"
    ELSE IF r.username = None THEN "Username is required"
    ELSE IF r.old_password = None THEN "Old password is required"
    ELSE IF r.new_password = None THEN "New password is required"
    ELSE IF ~is_password_strong(r.new_password) THEN "Password must be at least 8 characters long, contain an uppercase letter, a lowercase letter, and a digit"
    ELSE ""

\* (variant: update_password for the subject of the token only)
update_password_own(p) ==
    /\ apc[p] = "idle"
    /\ AuthScheduled(p)
    /\ \E header \in Headers :
          \E body \in (IF GateError(header) = "" THEN UpdatePasswordBodies
                       ELSE { NoAuthBody }) :
             LET r == AuthRequest("update_password", header, body)
             IN  /\ areq' = [areq EXCEPT ![p] = r]
                 /\ IF GateError(header) # ""
                    THEN AuthRespond(p, 401, GateError(header))
                    ELSE IF UpdatePasswordError(r) # ""
                    THEN AuthRespond(p, 400, UpdatePasswordError(r))
                    ELSE IF \/ r.username \notin DOMAIN USER_DATA
                            \/ validate_jwt(header.token).sub # r.username
                    THEN AuthRespond(p, 403, "Invalid credentials")
                    ELSE AuthGoto(p, "update_password_compare")
    /\ UNCHANGED << now, threaded, linkvars, probevars, USER_DATA, issued, changed >>

\* PUT /users: require_auth, then update_password up to the test
\* `username not in USER_DATA`; the body is read only behind the gate
update_password(p) ==
    /\ apc[p] = "idle"
    /\ AuthScheduled(p)
    /\ \E header \in Headers :
          \E body \in (IF GateError(header) = "" THEN UpdatePasswordBodies
                       ELSE { NoAuthBody }) :
             LET r == AuthRequest("update_password", header, body)
             IN  /\ areq' = [areq EXCEPT ![p] = r]
                 /\ IF GateError(header) # ""
                    THEN AuthRespond(p, 401, GateError(header))
                    ELSE IF UpdatePasswordError(r) # ""
                    THEN AuthRespond(p, 400, UpdatePasswordError(r))
                    ELSE IF r.username \notin DOMAIN USER_DATA
                    THEN AuthRespond(p, 403, "Invalid credentials")
                    ELSE AuthGoto(p, "update_password_compare")
    /\ UNCHANGED << now, threaded, linkvars, probevars, USER_DATA, issued, changed >>

\* (variant: update_password that does not compare the old password)
update_password_compare_any(p) ==
    /\ apc[p] = "update_password_compare"
    /\ AuthScheduled(p)
    /\ AuthGoto(p, "update_password_store")
    /\ UNCHANGED << now, threaded, linkvars, probevars, USER_DATA, areq, issued, changed >>

\* USER_DATA[username]['password'] != hash_password(old_password)
update_password_compare(p) ==
    /\ apc[p] = "update_password_compare"
    /\ AuthScheduled(p)
    /\ IF USER_DATA[areq[p].username].password # hash_password(areq[p].old_password)
       THEN AuthRespond(p, 403, "Invalid credentials")
       ELSE AuthGoto(p, "update_password_store")
    /\ UNCHANGED << now, threaded, linkvars, probevars, USER_DATA, areq, issued, changed >>

\* USER_DATA[username]['password'] = hash_password(new_password)
update_password_store(p) ==
    /\ apc[p] = "update_password_store"
    /\ AuthScheduled(p)
    /\ USER_DATA' = [USER_DATA EXCEPT
                       ![areq[p].username].password = hash_password(areq[p].new_password)]
    /\ AuthRespond(p, 200, "")
    /\ changed' = [username |-> areq[p].username,
                   old_password |-> areq[p].old_password,
                   new_password |-> areq[p].new_password]
    /\ UNCHANGED << now, threaded, linkvars, probevars, areq, issued >>

\* the response is sent: the thread is free for the next request
AuthReturn(p) ==
    /\ apc[p] = "done"
    /\ AuthScheduled(p)
    /\ apc' = [apc EXCEPT ![p] = "idle"]
    /\ areq' = [areq EXCEPT ![p] = NoAuthReq]
    /\ aresp' = [aresp EXCEPT ![p] = NoAuthResp]
    /\ UNCHANGED << now, threaded, linkvars, probevars, USER_DATA, issued, changed >>

AuthStep(p) ==
    \/ create_user(p)
    \/ create_user_store(p)
    \/ login(p)
    \/ login_compare(p)
    \/ login_issue(p)
    \/ update_password(p)
    \/ update_password_compare(p)
    \/ update_password_store(p)
    \/ AuthReturn(p)

NextAuth == Tick \/ \E p \in Procs : AuthStep(p)

\* the authentication service, one request at a time
SpecAuthSeq == InitSeq /\ [][NextAuth]_vars

\* the threaded server under registration requests only
NextRegister ==
    \/ Tick
    \/ \E p \in Procs : create_user(p) \/ create_user_store(p) \/ AuthReturn(p)

SpecRegister == Init /\ [][NextRegister]_vars

(* ------------------------- is_valid_url: probes ----------------------- *)

\* the pieces the probed strings are made of
SchemeParts ==
    { << "h", "t", "t", "p", ":", "/", "/" >>,
      << "H", "T", "T", "P", "S", ":", "/", "/" >>,
      << "f", "t", "p", ":", "/", "/" >>,
      << >> }
HostParts ==
    { << "a", ".", "i", "o" >>,
      << "w", "-", "1", ".", "A", ".", "t", "r", "a", "v", "e", "l" >>,
      << "a", ".", "w", "e", "b", "s", "i", "t", "e" >>,
      << "a", ".", "b" >>,
      << "a", ".", "i", "0" >>,
      << "a", "i", "o" >>,
      << "-", "a", ".", "i", "o" >>,
      << "a", ".", ".", "i", "o" >>,
      << "l", "o", "c", "a", "l", "h", "o", "s", "t" >>,
      << "1", "2", "7", ".", "0", ".", "0", ".", "1" >>,
      << "1", ".", "2", ".", "3" >>,
      << "1", "2", "3", "4", ".", "0", ".", "0", ".", "1" >> }
PortParts == { << >>, << ":", "8", "0" >>, << ":" >>, << ":", "x" >> }
TailParts ==
    { << >>, << "/" >>, << "/", "x", "?", "q", "=", "1" >>, << "?", "q" >>,
      << "x" >>, << "/", "a", " ", "b" >>, << "/", "<", "b", ">" >>, << "\n" >> }

\* a path of n characters
Path(n) == [i \in 1..n |-> IF i = 1 THEN "/" ELSE "x"]

\* the probed strings: every combination of the pieces, and two strings of
\* MaxUrlLen and MaxUrlLen + 1 characters
UrlProbes ==
    { sc \o h \o po \o t :
        sc \in SchemeParts, h \in HostParts, po \in PortParts, t \in TailParts }
    \cup { U_a \o Path(MaxUrlLen - Len(U_a)), U_a \o Path(MaxUrlLen + 1 - Len(U_a)) }

\* a string is handed to is_valid_url
InitUrl ==
    /\ url_data = << >>
    /\ now = 0
    /\ pc = [p \in Procs |-> "idle"]
    /\ req = [p \in Procs |-> NoReq]
    /\ local = [p \in Procs |-> NoLocal]
    /\ resp = [p \in Procs |-> NoResp]
    /\ created = {}
    /\ threaded = FALSE
    /\ USER_DATA = << >>
    /\ apc = [p \in Procs |-> "idle"]
    /\ areq = [p \in Procs |-> NoAuthReq]
    /\ aresp = [p \in Procs |-> NoAuthResp]
    /\ issued = NoIssue
    /\ changed = NoChange
    /\ probe \in UrlProbes
    /\ verdict = "none"

\* is_valid_url(probe) returns
Validate ==
    /\ verdict = "none"
    /\ verdict' = IF is_valid_url(probe) THEN "True" ELSE "False"
    /\ UNCHANGED << now, threaded, linkvars, authvars, probe >>

NextUrl == Validate

SpecUrl == InitUrl /\ [][NextUrl]_vars

(* ======================= properties of the store ====================== *)

\* thread p answers a request of kind op in this step
Answers(p, op) == pc[p] # "done" /\ pc'[p] = "done" /\ req'[p].op = op

\* the record stored under id, if any, has target url
MapsTo(d, id, url) == \E i \in DOMAIN d : d[i].id = id /\ d[i].url = url

UniqueTargets(d) == \A i, j \in DOMAIN d : d[i].url = d[j].url => i = j

\* the store changes only in the step that answers 200 or 201
ChangesOnlyOnSuccess ==
    url_data' # url_data =>
        \E p \in Procs : pc[p] # "done" /\ pc'[p] = "done" /\ resp'[p].code \in { 200, 201 }

\* get(id) answered from the store as it is: 302 to the target stored
\* under id, 404 when id is no key
GetReadsStore ==
    \A p \in Procs :
        pc[p] = "done" /\ req[p].op = "get" =>
            IF \E i \in DOMAIN url_data : url_data[i].id = req[p].id
            THEN resp[p].code = 302 /\ MapsTo(url_data, req[p].id, resp[p].location)
            ELSE resp[p].code = 404

(* C1: across create calls with pairwise distinct valid targets, run one   *)
(* after another or interleaved, the ids answered with 201 are pairwise    *)
(* distinct, each has length uri_length over the 62 symbols of chars, and  *)
(* each still maps to its own target (no create overwrites another's       *)
(* record).                                                                *)
C1_CreatedIdsDistinct ==
    \A e \in created :
        /\ e.id \in [1..uri_length -> chars]
        /\ MapsTo(url_data, e.id, e.url)
        /\ \A f \in created : f.url # e.url => f.id # e.id

(* C2: in every state reachable by create, update and delete operations,   *)
(* no two live records have the same target.                               *)
C2_UniqueTargetsAlways == UniqueTargets(url_data)

(* C2, amended: create and delete keep the targets of the live records     *)
(* pairwise distinct; the only step after which two records share a target *)
(* is the write of an update.                                              *)
C2_OnlyUpdateDuplicatesTarget ==
    [][ (UniqueTargets(url_data) /\ ~UniqueTargets(url_data'))
          => \E p \in Procs : Answers(p, "update") /\ resp'[p].code = 200 ]_vars

C2_Witness ==
    /\ Len(url_data) >= 2
    /\ UniqueTargets(url_data)
    /\ \A i \in DOMAIN url_data :
          [id |-> url_data[i].id, url |-> url_data[i].url] \in created
    /\ \E p \in Procs :
          pc[p] = "done" /\ req[p].op = "create" /\ resp[p].code = 409

(* C3: if create(T) answered 201 with id i and i has not been updated or   *)
(* deleted since, then create(T) answers 409 carrying exactly i and leaves *)
(* the store unchanged.                                                    *)
C3_SecondCreateConflicts ==
    [][ \A p \in Procs : \A e \in created :
          (Answers(p, "create") /\ req'[p].url = e.url)
            => /\ resp'[p].code = 409
               /\ resp'[p].id = e.id
               /\ url_data' = url_data ]_vars

(* C3, amended: if create(T) answered 201 with id i, i has not been        *)
(* updated or deleted since, and no record stored before i has been        *)
(* updated to T, then create(T) answers 409 carrying exactly i and leaves  *)
(* the store unchanged.                                                    *)
C3_SecondCreateConflictsFirstHolder ==
    [][ /\ ChangesOnlyOnSuccess
        /\ \A p \in Procs : \A e \in created :
             ( /\ Answers(p, "create")
               /\ req'[p].url = e.url
               /\ \A i, j \in DOMAIN url_data :
                    (url_data[j].id = e.id /\ url_data[i].url = e.url) => j <= i )
               => /\ resp'[p].code = 409
                  /\ resp'[p].id = e.id
                  /\ url_data' = url_data ]_vars

C3_Witness ==
    \E p \in Procs :
        /\ pc[p] = "done" /\ req[p].op = "create" /\ resp[p].code = 409
        /\ [id |-> resp[p].id, url |-> req[p].url] \in created
        /\ \E i \in DOMAIN url_data :
              url_data[i].id # resp[p].id /\ url_data[i].url = req[p].url

(* C4: when two create calls with the same valid target overlap, at most   *)
(* one of them inserts a record: the store never holds two records that    *)
(* two create calls inserted for the same target.                          *)
C4_OneInsertPerTarget ==
    \A e, f \in created : e.url = f.url => e.id = f.id

(* C5: for a body without JSON, without url, or with a url is_valid_url    *)
(* rejects, create answers 400 at once, allocates no id and leaves every   *)
(* record of the store as it was.                                          *)
C5_InvalidCreateRejected ==
    [][ \A p \in Procs :
          ( /\ pc[p] = "idle" /\ pc'[p] # "idle" /\ req'[p].op = "create"
            /\ ~(req'[p].json /\ req'[p].has_url /\ is_valid_url(req'[p].url)) )
            => /\ pc'[p] = "done"
               /\ resp'[p].code = 400
               /\ resp'[p].id = NoId
               /\ url_data' = url_data ]_vars

C5_Witness ==
    \E p \in Procs :
        /\ pc[p] = "done" /\ req[p].op = "create" /\ resp[p].code = 400
        /\ req[p].has_url /\ ~is_valid_url(req[p].url)
        /\ url_data # << >>

(* C6: the id create(T) answers for a valid target T, newly allocated      *)
(* (201) or carried by the conflict (409), is stored with target T, and a  *)
(* get of an id answers 302 to the target stored under it.                 *)
C6_CreateThenGet ==
    /\ GetReadsStore
    /\ \A p \in Procs :
          pc[p] = "done" /\ req[p].op = "create" /\ resp[p].code # 400 =>
              /\ resp[p].code \in { 201, 409, 500 }
              /\ resp[p].code \in { 201, 409 } => MapsTo(url_data, resp[p].id, req[p].url)

C6_Witness ==
    \E p \in Procs :
        /\ pc[p] = "done" /\ req[p].op = "get" /\ resp[p].code = 302
        /\ [id |-> req[p].id, url |-> resp[p].location] \in created
        /\ Len(url_data) >= 2

(* C7: update(id, target) on an id that is no key of the store answers     *)
(* 404 for every target supplied, valid or not, and leaves the store       *)
(* unchanged.                                                              *)
C7_UpdateMissingIs404 ==
    [][ \A p \in Procs :
          ( /\ Answers(p, "update")
            /\ req'[p].id \notin Keys(url_data)
            /\ req'[p].has_url )
            => resp'[p].code = 404 /\ url_data' = url_data ]_vars

(* C7, amended: update(id, target) on an id that is no key of the store    *)
(* answers 404 when the body carries a valid target and 400 when it does   *)
(* not (the body is validated before the id is looked up); either way the  *)
(* store is unchanged.                                                     *)
C7_UpdateMissingIs404Or400 ==
    [][ /\ ChangesOnlyOnSuccess
        /\ \A p \in Procs :
             (Answers(p, "update") /\ req'[p].id \notin Keys(url_data))
               => /\ resp'[p].code =
                        IF req'[p].json /\ req'[p].has_url /\ is_valid_url(req'[p].url)
                        THEN 404 ELSE 400
                  /\ url_data' = url_data ]_vars

C7_Witness ==
    \E p \in Procs :
        /\ pc[p] = "done" /\ req[p].op = "update" /\ resp[p].code = 404
        /\ req[p].id \notin Keys(url_data)
        /\ is_valid_url(req[p].url)
        /\ url_data # << >>

(* C8: update(id, target) on an existing id with a target is_valid_url     *)
(* rejects answers 400 and leaves that record (target, created_at) and     *)
(* every other record unmodified.                                          *)
C8_InvalidUpdateRejected ==
    [][ /\ ChangesOnlyOnSuccess
        /\ \A p \in Procs :
             ( /\ pc[p] = "idle" /\ pc'[p] # "idle" /\ req'[p].op = "update"
               /\ req'[p].id \in Keys(url_data)
               /\ req'[p].has_url /\ ~is_valid_url(req'[p].url) )
               => /\ pc'[p] = "done"
                  /\ resp'[p].code = 400
                  /\ url_data' = url_data ]_vars

C8_Witness ==
    \E p \in Procs :
        /\ pc[p] = "done" /\ req[p].op = "update" /\ resp[p].code = 400
        /\ req[p].id \in Keys(url_data)
        /\ req[p].has_url /\ ~is_valid_url(req[p].url)

(* C9: an update answered 200 changes only the target of record id: the    *)
(* record keeps its id, its place and its created_at, the set of ids and   *)
(* every other record are unchanged, and id then maps to the new target,   *)
(* which is what a get of id answers.                                      *)
C9_UpdateChangesTargetOnly ==
    /\ []GetReadsStore
    /\ [][ /\ ChangesOnlyOnSuccess
           /\ \A p \in Procs :
                (Answers(p, "update") /\ resp'[p].code = 200)
                  => /\ req'[p].id \in Keys(url_data)
                     /\ DOMAIN url_data' = DOMAIN url_data
                     /\ \A i \in DOMAIN url_data :
                          /\ url_data'[i].id = url_data[i].id
                          /\ url_data'[i].created_at = url_data[i].created_at
                          /\ url_data'[i].url =
                               IF url_data[i].id = req'[p].id
                               THEN req'[p].url ELSE url_data[i].url ]_vars

C9_Witness ==
    \E p \in Procs :
        /\ pc[p] = "done" /\ req[p].op = "update" /\ resp[p].code = 200
        /\ Len(url_data) >= 2
        /\ \E i \in DOMAIN url_data :
              /\ url_data[i].id = req[p].id
              /\ url_data[i].url = req[p].url
              /\ url_data[i].created_at # strftime(now)

(* C10: delete(id) on an existing id answers 200 and removes exactly that  *)
(* record, every other record staying as it was, so that a get of id then  *)
(* answers 404; delete(id) on an id that is no key answers 404 and leaves  *)
(* the store unchanged.                                                    *)
C10_DeleteRemovesExactlyOne ==
    /\ []GetReadsStore
    /\ [][ /\ ChangesOnlyOnSuccess
           /\ \A p \in Procs :
                /\ (pc[p] = "idle" /\ pc'[p] # "idle" /\ req'[p].op = "delete")
                     => IF req'[p].id \in Keys(url_data)
                        THEN pc'[p] = "delete_del"
                        ELSE pc'[p] = "done" /\ resp'[p].code = 404
                                /\ url_data' = url_data
                /\ (Answers(p, "delete") /\ req'[p].id \in Keys(url_data))
                     => /\ resp'[p].code = 200
                        /\ req'[p].id \notin Keys(url_data')
                        /\ url_data' = SelectSeq(url_data,
                                                 LAMBDA e : e.id # req'[p].id) ]_vars

C10_Witness ==
    \E p \in Procs :
        /\ pc[p] = "done" /\ req[p].op = "delete" /\ resp[p].code = 200
        /\ req[p].id \notin Keys(url_data)
        /\ url_data # << >>

(* C11: identifier allocation ends after at most max_attempts draws: each  *)
(* turn of the loop either returns a candidate that is no key of the store *)
(* at the moment of the test, or counts one more collision; when           *)
(* max_attempts draws have collided it fails, create answers 500, and the  *)
(* store is left exactly as it was.                                        *)
C11_AllocationBounded ==
    /\ [](\A p \in Procs : local[p].attempts <= max_attempts)
    /\ [][ \A p \in Procs :
             ( /\ pc[p] = "generate_unique_id"
               /\ (pc'[p] # pc[p] \/ local'[p] # local[p]) )
               => /\ url_data' = url_data
                  /\ \/ /\ pc'[p] = "insert"
                        /\ local'[p].unique_id \notin Keys(url_data)
                        /\ local'[p].unique_id \in [1..uri_length -> chars]
                        /\ local[p].attempts < max_attempts
                     \/ /\ pc'[p] = "generate_unique_id"
                        /\ local'[p].attempts = local[p].attempts + 1
                        /\ \E id \in Keys(url_data) : id \in [1..uri_length -> chars]
                     \/ /\ pc'[p] = "done"
                        /\ resp'[p].code = 500
                        /\ local[p].attempts = max_attempts ]_vars

C11_Witness ==
    \E p \in Procs :
        /\ pc[p] = "done" /\ req[p].op = "create" /\ resp[p].code = 500
        /\ url_data # << >>
        /\ Len(url_data) < PoolSize

(* C19: the listing holds exactly one entry per live record, with the      *)
(* record's target and created_at, ordered by created_at descending;       *)
(* records of equal created_at come in their order of insertion.           *)
C19_ListingSortedComplete ==
    \A p \in Procs :
        pc[p] = "done" /\ req[p].op = "list" =>
            LET l == resp[p].short_urls
            IN  /\ resp[p].code = 200
                /\ Len(l) = Len(url_data)
                /\ \A i \in DOMAIN url_data :
                      \E j \in DOMAIN l :
                          /\ l[j].id = url_data[i].id
                          /\ l[j].original_url = url_data[i].url
                          /\ l[j].created_at = url_data[i].created_at
                /\ \A i, j \in DOMAIN l :
                      i < j =>
                          \/ l[i].created_at > l[j].created_at
                          \/ /\ l[i].created_at = l[j].created_at
                             /\ \E a, b \in DOMAIN url_data :
                                   /\ a < b
                                   /\ url_data[a].id = l[i].id
                                   /\ url_data[b].id = l[j].id

C19_Witness ==
    \E p \in Procs :
        /\ pc[p] = "done" /\ req[p].op = "list" /\ resp[p].code = 200
        /\ Len(resp[p].short_urls) >= 2
        /\ resp[p].short_urls[1].id = url_data[2].id
        /\ resp[p].short_urls[1].created_at > resp[p].short_urls[2].created_at

(* C12: a register call answers Ok (201) only for a username that has no   *)
(* record when the answer is given, and a register call never changes the  *)
(* record of a username that has one: no registration overwrites, and at   *)
(* most one register call per username answers Ok, also when register      *)
(* calls for the same username overlap.                                    *)
C12_RegisterNeverOverwrites ==
    [][ \A p \in Procs :
          ( /\ areq'[p].op = "create_user"
            /\ apc[p] # "done"
            /\ apc'[p] = "done"
            /\ areq'[p].username \in DOMAIN USER_DATA )
            => /\ aresp'[p].code # 201
               /\ USER_DATA' = USER_DATA ]_vars

\* thread p has answered a request `op`
AuthAnswers(p, op) == apc[p] # "done" /\ apc'[p] = "done" /\ areq'[p].op = op

\* a login request with a username and a password, for a registered user
LoginOfRegistered(p) ==
    /\ areq[p].op = "login"
    /\ areq[p].json
    /\ areq[p].username # None
    /\ areq[p].password # None
    /\ areq[p].username \in DOMAIN USER_DATA

(* C13: a login for a registered user answers 200 with a token exactly     *)
(* when the hash of the supplied password equals the stored hash, and 403  *)
(* "Invalid credentials" without a token otherwise; the stored hash is the *)
(* hash of the password of the register or change_password call that      *)
(* wrote it last.                                                          *)
C13_LoginRoundTrip ==
    /\ [](\A p \in Procs :
            apc[p] = "done" /\ LoginOfRegistered(p) =>
                IF hash_password(areq[p].password) = USER_DATA[areq[p].username].password
                THEN /\ aresp[p].code = 200
                     /\ aresp[p].access_token.compact
                     /\ aresp[p].access_token.key = JWT_SECRET
                     /\ aresp[p].access_token.payload.sub = areq[p].username
                ELSE /\ aresp[p].code = 403
                     /\ aresp[p].error = "Invalid credentials"
                     /\ aresp[p].access_token = NoToken)
    /\ [][ \A u \in DOMAIN USER_DATA' :
             (u \notin DOMAIN USER_DATA \/ USER_DATA'[u].password # USER_DATA[u].password)
                => \E p \in Procs :
                      /\ areq[p].username = u
                      /\ \/ /\ AuthAnswers(p, "create_user")
                            /\ aresp'[p].code = 201
                            /\ USER_DATA'[u].password = hash_password(areq[p].password)
                         \/ /\ AuthAnswers(p, "update_password")
                            /\ aresp'[p].code = 200
                            /\ USER_DATA'[u].password = hash_password(areq[p].new_password) ]_vars

C13_Witness ==
    \E p \in Procs :
        /\ apc[p] = "done" /\ LoginOfRegistered(p) /\ aresp[p].code = 200
        /\ areq[p].password = P_N3wStr0ng
        /\ issued.token = aresp[p].access_token

(* C14: change_password answers 200 only when the old password verifies    *)
(* against the stored hash and the new one is strong, and then replaces    *)
(* the hash of that user and nothing else; with any other answer the store *)
(* is unchanged; after a success a login with the new password answers 200 *)
(* and a login with the old one, if different, 403 "Invalid credentials".  *)
C14_ChangePassword ==
    /\ [][ \A p \in Procs :
             AuthAnswers(p, "update_password") =>
                IF aresp'[p].code = 200
                THEN /\ areq[p].username \in DOMAIN USER_DATA
                     /\ USER_DATA[areq[p].username].password
                           = hash_password(areq[p].old_password)
                     /\ is_password_strong(areq[p].new_password)
                     /\ USER_DATA' = [USER_DATA EXCEPT
                                        ![areq[p].username].password =
                                            hash_password(areq[p].new_password)]
                ELSE /\ aresp'[p].code \in { 400, 401, 403 }
                     /\ USER_DATA' = USER_DATA ]_vars
    /\ [](\A p \in Procs :
            ( /\ apc[p] = "done"
              /\ LoginOfRegistered(p)
              /\ changed # NoChange
              /\ areq[p].username = changed.username )
              => /\ areq[p].password = changed.new_password => aresp[p].code = 200
                 /\ ( /\ areq[p].password = changed.old_password
                      /\ changed.old_password # changed.new_password )
                      => /\ aresp[p].code = 403
                         /\ aresp[p].error = "Invalid credentials")

C14_Witness ==
    \E p \in Procs :
        /\ apc[p] = "done"
        /\ LoginOfRegistered(p)
        /\ areq[p].username = changed.username
        /\ areq[p].password = changed.old_password
        /\ changed.old_password # changed.new_password
        /\ aresp[p].code = 403

\* the header carries a token signed with the process secret that has not
\* expired at time t
CarriesValidToken(header, t) ==
    /\ header.present
    /\ header.token.compact
    /\ header.token.key = JWT_SECRET
    /\ header.token.payload.exp > t

(* C15: a change_password request without a header, or whose token is      *)
(* malformed, signed with another key or expired, is answered 401 at once  *)
(* and changes nothing in USER_DATA; only a request carrying a token       *)
(* signed with the process secret and not expired reaches the body of      *)
(* update_password.                                                        *)
C15_GateBlocksInvalidToken ==
    /\ [][ \A p \in Procs :
             (apc[p] = "idle" /\ areq'[p].op = "update_password") =>
                IF CarriesValidToken(areq'[p].header, now)
                THEN aresp'[p].code # 401
                ELSE /\ apc'[p] = "done"
                     /\ aresp'[p].code = 401
                     /\ USER_DATA' = USER_DATA ]_vars
    /\ [](\A p \in Procs :
            ( /\ areq[p].op = "update_password"
              /\ (apc[p] = "done" => aresp[p].code # 401) )
              => /\ areq[p].header.present
                 /\ areq[p].header.token.compact
                 /\ areq[p].header.token.key = JWT_SECRET)
    /\ [][ USER_DATA' # USER_DATA =>
             \E p \in Procs :
                \/ areq[p].op = "create_user"
                \/ /\ areq[p].op = "update_password"
                   /\ areq[p].header.token.key = JWT_SECRET ]_vars

C15_Witness ==
    \E p \in Procs :
        /\ apc[p] = "done"
        /\ areq[p].op = "update_password"
        /\ areq[p].header.token.key = JWT_SECRET
        /\ areq[p].header.token.payload.sub \in DOMAIN USER_DATA
        /\ aresp[p].code = 401

(* C16: the token a login issued at time t for (username, role) verifies   *)
(* at every time before t + TokenLifetime and decodes to that username and *)
(* role, fails to verify at every time after t + TokenLifetime, and the    *)
(* same payload signed with another key never verifies.                    *)
C16_TokenRoundTripAndExpiry ==
    issued # NoIssue =>
        /\ now < issued.at + TokenLifetime =>
              /\ validate_jwt(issued.token) # NoPayload
              /\ validate_jwt(issued.token).sub = issued.sub
              /\ validate_jwt(issued.token).role = issued.role
        /\ now > issued.at + TokenLifetime => validate_jwt(issued.token) = NoPayload
        /\ validate_jwt(jwt_encode(issued.token.payload, OtherSecret)) = NoPayload
        /\ \A p \in Procs :
              ( /\ apc[p] = "done"
                /\ areq[p].op = "login"
                /\ aresp[p].code = 200 )
                => /\ aresp[p].access_token.payload.sub = areq[p].username
                   /\ aresp[p].access_token.payload.role = USER_DATA[areq[p].username].role
                   /\ aresp[p].access_token = issued.token =>
                         aresp[p].access_token.payload.exp = issued.at + TokenLifetime

C16_Witness ==
    \E p \in Procs :
        /\ issued # NoIssue
        /\ now > issued.at + TokenLifetime
        /\ apc[p] = "done"
        /\ areq[p].op = "update_password"
        /\ areq[p].header = Bearer(issued.token)
        /\ aresp[p].code = 401

\* the response of the gate to a request it stops
Unauthenticated(error) == [NoAuthResp EXCEPT !.code = 401, !.error = error]

(* C17 (as stated): a request stopped by the gate gets the response that   *)
(* any other request failing the gate, for whatever reason, would get.     *)
C17_GateFailuresIndistinguishable ==
    \A p \in Procs :
        (apc[p] = "done" /\ areq[p].op = "update_password" /\ aresp[p].code = 401) =>
            \A header \in Headers :
                GateError(header) # "" => aresp[p] = Unauthenticated(GateError(header))

(* C17 (amended): every request stopped by the gate is answered 401; a     *)
(* request with a header gets the same response whether its token is       *)
(* malformed, signed with another key or expired, and a request without a  *)
(* header gets a 401 response with a message of its own.                   *)
C17_GateFailuresUniformPerHeader ==
    \A p \in Procs :
        (apc[p] = "done" /\ areq[p].op = "update_password") =>
            /\ ~areq[p].header.present =>
                  aresp[p] = Unauthenticated("Missing Authorization header")
            /\ ( /\ areq[p].header.present
                 /\ \/ ~areq[p].header.token.compact
                    \/ areq[p].header.token.key # JWT_SECRET
                    \/ aresp[p].code = 401 )
                 => aresp[p] = Unauthenticated("Invalid JWT token")

C17_Witness ==
    \E p \in Procs :
        /\ apc[p] = "done"
        /\ areq[p].op = "update_password"
        /\ areq[p].header = Bearer(Forged)
        /\ aresp[p] = Unauthenticated("Invalid JWT token")
        /\ issued # NoIssue
        /\ validate_jwt(issued.token) = NoPayload

\* a login request with a username and a password
LoginWellFormed(p) ==
    /\ areq[p].op = "login"
    /\ areq[p].json
    /\ areq[p].username # None
    /\ areq[p].password # None

(* C18 (as stated): a login for a username without a record is answered    *)
(* 404, without a token.                                                   *)
C18_UnknownUserIs404 ==
    \A p \in Procs :
        ( /\ apc[p] = "done"
          /\ LoginWellFormed(p)
          /\ areq[p].username \notin DOMAIN USER_DATA )
          => /\ aresp[p].code = 404
             /\ aresp[p].access_token = NoToken

(* C18 (amended): a login for a username without a record is answered 403  *)
(* "User not found", and a login of a registered username with a wrong     *)
(* password 403 "Invalid credentials": the same status, told apart by the  *)
(* message only; neither issues a token, and no login changes USER_DATA.   *)
C18_UnknownUserIs403 ==
    /\ [](\A p \in Procs :
            (apc[p] = "done" /\ LoginWellFormed(p)) =>
               /\ areq[p].username \notin DOMAIN USER_DATA =>
                     /\ aresp[p].code = 403
                     /\ aresp[p].error = "User not found"
                     /\ aresp[p].access_token = NoToken
               /\ ( /\ areq[p].username \in DOMAIN USER_DATA
                    /\ USER_DATA[areq[p].username].password
                          # hash_password(areq[p].password) )
                    => /\ aresp[p].code = 403
                       /\ aresp[p].error = "Invalid credentials"
                       /\ aresp[p].access_token = NoToken)
    /\ [][ \A p \in Procs :
             (areq'[p].op = "login" /\ apc'[p] # apc[p]) =>
                /\ USER_DATA' = USER_DATA
                /\ aresp'[p].code # 200 => issued' = issued ]_vars

C18_Witness ==
    \E p \in Procs :
        /\ apc[p] = "done"
        /\ LoginWellFormed(p)
        /\ areq[p].username \notin DOMAIN USER_DATA
        /\ DOMAIN USER_DATA # { }
        /\ aresp[p].code = 403
        /\ aresp[p].error = "User not found"

(* ---------------------- the URL grammar of the claim ------------------ *)

\* s[a..b] holds characters of the set S only
AllIn(s, a, b, S) == \A j \in a..b : s[j] \in S

\* s starts with the word lit, whatever the case of its letters
StartsWith(s, lit) == Len(s) >= Len(lit) /\ \A i \in DOMAIN lit : lc(s[i]) = lit[i]

\* s[a..b] is a dotted hostname (labels of letters, digits and hyphens that
\* begin and end with a letter or digit) whose last label, the top-level
\* one, is made of letters only and has at least 2 of them
DottedHostname(s, a, b) ==
    \E d \in (a + 1)..(b - 2) :
        /\ s[d] = "."
        /\ AllIn(s, d + 1, b, ascii_letters)
        /\ AllIn(s, a, d - 1, chars \cup { "-", "." })
        /\ s[a] \in chars
        /\ s[d - 1] \in chars
        /\ \A j \in (a + 1)..(d - 2) : s[j] = "." => s[j - 1] \in chars /\ s[j + 1] \in chars

\* s[a..b] is localhost
Localhost(s, a, b) ==
    /\ b - a + 1 = 9
    /\ \A i \in 1..9 : lc(s[a + i - 1]) = << "l", "o", "c", "a", "l", "h", "o", "s", "t" >>[i]

\* s[a..b] is four numbers of up to three digits, with dots between them
DottedQuad(s, a, b) ==
    \E d1, d2, d3 \in a..b :
        /\ d1 < d2 /\ d2 < d3
        /\ s[d1] = "." /\ s[d2] = "." /\ s[d3] = "."
        /\ \A g \in { << a, d1 - 1 >>, << d1 + 1, d2 - 1 >>,
                      << d2 + 1, d3 - 1 >>, << d3 + 1, b >> } :
              /\ g[2] >= g[1]
              /\ g[2] - g[1] <= 2
              /\ AllIn(s, g[1], g[2], digits)

\* s[b..c-1] is empty or a colon and a port number
OptionalPort(s, b, c) == c = b \/ (c >= b + 2 /\ s[b] = ":" /\ AllIn(s, b + 1, c - 1, digits))

\* s from position c on is empty, or a path or query without white space
OptionalRemainder(s, c) ==
    \/ c = Len(s) + 1
    \/ c <= Len(s) /\ s[c] \in { "/", "?" } /\ AllIn(s, c, Len(s), chars \cup (Range(s) \ whitespace))

\* the absolute-URL grammar: scheme, host, optional port, optional remainder
AbsoluteUrl(s) ==
    \E a \in { 8, 9 } :
        /\ \/ a = 8 /\ StartsWith(s, << "h", "t", "t", "p", ":", "/", "/" >>)
           \/ a = 9 /\ StartsWith(s, << "h", "t", "t", "p", "s", ":", "/", "/" >>)
        /\ \E b \in a..(Len(s) + 1) :
              /\ \/ DottedHostname(s, a, b - 1)
                 \/ Localhost(s, a, b - 1)
                 \/ DottedQuad(s, a, b - 1)
              /\ \E c \in b..(Len(s) + 1) : OptionalPort(s, b, c) /\ OptionalRemainder(s, c)

(* C20: is_valid_url(s) is true exactly when s has at most 1000            *)
(* characters, holds no '<' or '>' and matches the absolute-URL grammar    *)
(* (scheme http or https; a dotted hostname whose top-level label has 2 or *)
(* more letters, or localhost, or a dotted quad; an optional port; an      *)
(* optional remainder), and the call changes nothing but its result.       *)
C20_ValidatesExactlyTheGrammar ==
    verdict # "none" =>
        (verdict = "True") =
            ( /\ Len(probe) <= MaxUrlLen
              /\ \A i \in DOMAIN probe : probe[i] \notin { "<", ">" }
              /\ AbsoluteUrl(probe) )

(* C21: an update or a get that overlaps a delete of the same id behaves   *)
(* as in one of the serial orders: neither answers with an internal error  *)
(* (500), and an update answers 200 only for an id that has a record when  *)
(* it writes, so that a deleted record is never present again through an   *)
(* update.                                                                 *)
C21_UpdateDeleteSerializable ==
    /\ [](\A p \in Procs :
            (pc[p] = "done" /\ req[p].op \in { "update", "get" }) => resp[p].code # 500)
    /\ [][ \A p \in Procs :
             (Answers(p, "update") /\ resp'[p].code = 200) =>
                /\ req[p].id \in Keys(url_data)
                /\ Keys(url_data') = Keys(url_data) ]_vars

(* C22: a username that has a record keeps it in every later state, with   *)
(* the same role; its password hash changes only in the step in which a    *)
(* change_password for that username answers 200.                          *)
C22_UserRecordLifecycle ==
    [][ \A u \in DOMAIN USER_DATA :
          /\ u \in DOMAIN USER_DATA'
          /\ USER_DATA'[u].role = USER_DATA[u].role
          /\ USER_DATA'[u].password # USER_DATA[u].password =>
                \E p \in Procs :
                    /\ AuthAnswers(p, "update_password")
                    /\ aresp'[p].code = 200
                    /\ areq[p].username = u ]_vars

(* C23: whether the token of a login passes the gate depends on its        *)
(* signature and its expiry only: a request carrying it passes the gate at *)
(* every time before t + TokenLifetime and is stopped from then on,        *)
(* whatever USER_DATA holds, also after the password of its user has been  *)
(* changed; a change of USER_DATA never changes what the token decodes to, *)
(* and the token keeps the subject and role it was issued with.            *)
C23_TokenIndependentOfStore ==
    /\ [][ \A p \in Procs :
             ( /\ apc[p] = "idle"
               /\ areq'[p].op = "update_password"
               /\ issued # NoIssue
               /\ areq'[p].header = Bearer(issued.token) )
               => (aresp'[p].code = 401) = (now >= issued.at + TokenLifetime) ]_vars
    /\ [][ (USER_DATA' # USER_DATA /\ issued' = issued /\ issued # NoIssue)
              => validate_jwt(issued.token)' = validate_jwt(issued.token) ]_vars
    /\ [](issued # NoIssue =>
            /\ issued.token.payload.sub = issued.sub
            /\ issued.token.payload.role = issued.role
            /\ now < issued.at + TokenLifetime =>
                  validate_jwt(issued.token) = issued.token.payload)

C23_Witness ==
    \E p \in Procs :
        /\ issued # NoIssue
        /\ USER_DATA[issued.sub].password # issued.password
        /\ apc[p] = "done"
        /\ areq[p].op = "update_password"
        /\ areq[p].header = Bearer(issued.token)
        /\ aresp[p].code = 403
        /\ now < issued.at + TokenLifetime

\* thread p answers a change_password call that has all its fields, for a
\* registered username whose stored hash is that of old_password, with a
\* token that passed the gate
ChangeWithValidTokenAndOldPassword(p) ==
    /\ AuthAnswers(p, "update_password")
    /\ aresp'[p].code # 401
    /\ areq'[p].json
    /\ areq'[p].username \in DOMAIN USER_DATA
    /\ areq'[p].old_password # None
    /\ areq'[p].new_password # None
    /\ USER_DATA[areq'[p].username].password = hash_password(areq'[p].old_password)

(* C24 (as stated): change_password succeeds whenever the request carries  *)
(* a valid token and old_password verifies for the username.               *)
C24_AnyValidTokenChangesPassword ==
    [][ \A p \in Procs :
          ChangeWithValidTokenAndOldPassword(p) =>
             /\ aresp'[p].code = 200
             /\ USER_DATA'[areq'[p].username].password
                   = hash_password(areq'[p].new_password) ]_vars

(* C24 (amended): change_password succeeds whenever the request carries a  *)
(* valid token of any subject or role, old_password verifies for the       *)
(* username and new_password is strong, also when the subject of the token *)
(* is another user; with a weak new_password it answers 400 and changes    *)
(* nothing.                                                                *)
C24_AnyValidTokenChangesStrongPassword ==
    [][ \A p \in Procs :
          ChangeWithValidTokenAndOldPassword(p) =>
             IF is_password_strong(areq'[p].new_password)
             THEN /\ aresp'[p].code = 200
                  /\ USER_DATA'[areq'[p].username].password
                        = hash_password(areq'[p].new_password)
             ELSE /\ aresp'[p].code = 400
                  /\ USER_DATA' = USER_DATA ]_vars

C24_Witness ==
    \E p \in Procs :
        /\ apc[p] = "done"
        /\ areq[p].op = "update_password"
        /\ aresp[p].code = 200
        /\ areq[p].header.token.payload.sub # areq[p].username
        /\ areq[p].header.token.payload.role = "regular"
        /\ USER_DATA[areq[p].username].role = "admin"
====
